---- MODULE Spec2Model ----
(***************************************************************************)
(* The ledger of the banking application: the persisted UserAccount and    *)
(* Transaction rows, and the HTTP requests that read and write them.  The  *)
(* database runs in autocommit mode (no request is wrapped in a database   *)
(* transaction), so every ORM read or write is one atomic step and the     *)
(* steps of concurrent requests interleave.  Each request works on the     *)
(* model instances it loaded: the values it writes back are computed from  *)
(* its own copies, never re-read.                                          *)
(*                                                                         *)
(* No view uses transaction.atomic or select_for_update, and the project's *)
(* settings are not among the sources: Django's defaults (autocommit, no   *)
(* ATOMIC_REQUESTS) are taken.                                             *)
(*                                                                         *)
(* A request's reads of different rows, and a read followed by the insert  *)
(* of a new entry, are modelled as one step: each commutes with the writes *)
(* other requests make in between, so no outcome is lost.  Every write of  *)
(* an existing row is a step of its own.                                   *)
(*                                                                         *)
(* Money is counted in whole minor units.                                  *)
(*                                                                         *)
(* The accounts a1 and a2 belong to two registered users.  The users that  *)
(* register later, and what the admin site does to users and accounts, are *)
(* kept apart in the variable `users`.                                     *)
(***************************************************************************)
EXTENDS Integers, Sequences, FiniteSets, TLC

\* Largest amount a request may name.
MaxAmount == 2
\* Largest value the balance column (max_digits=12, decimal_places=2) can
\* store, scaled down: saving a larger balance raises.
MaxBalance == 2
\* Number of requests served in one behaviour of Spec; SpecLong serves one more.
MaxRequests == 2

Accounts == {"a1", "a2"}
Procs == {1, 2}
Currencies == {"USD", "EUR", "RUB"}
UnknownCurrency == "XXX"
UnknownAccount == "a0"
NoAccount == "none"
NoEntry == 0

\* The amounts a caller can send: 0 stands for every non-positive amount.
AmountInputs == 0..MaxAmount
\* The currency codes a caller can send; Absent is a field left out.
Absent == ""
CurrencyInputs == {"USD", "EUR", UnknownCurrency}

\* The users that may register besides the holders of the accounts above,
\* and the phone numbers they may give.
UserIds == {"u3", "u4", "u5"}
Phones == {"p1", "p2"}
\* The phone number the signal handler makes up: a fresh one each time.
Placeholder == "placeholder"

VARIABLES
    accounts,   \* UserAccount table: account id -> [balance, currency]
    entries,    \* Transaction table: entry id -> row
    nextId,     \* the next fresh transaction_id (ids grow with creation time)
    req,        \* the request each worker is serving, with its local copies
    started,    \* requests accepted so far
    users,      \* CustomUser rows of further users, each with its UserAccount rows
    rates       \* Currency table: code -> exchange_rate

vars == <<accounts, entries, nextId, req, started, users, rates>>

Idle == [kind |-> "idle"]

\* A user that is not registered: no CustomUser row, no UserAccount row, no
\* registration under way.
NoUser == [user |-> FALSE, accounts |-> 0, phone |-> Absent, pc |-> "none", wanted |-> Absent]

----------------------------------------------------------------------------
(* decimal.Decimal arithmetic and Currency.convert_to *)

\* A Decimal is [c |-> coefficient, e |-> exponent], the number c * 10^e.
\* Results are rounded half-even to Prec significant digits, as the decimal
\* context does (with 28 digits in Python).
Prec == 6

RECURSIVE Pow10(_)
Pow10(k) == IF k <= 0 THEN 1 ELSE 10 * Pow10(k - 1)

RECURSIVE Digits(_)
Digits(n) == IF n < 10 THEN 1 ELSE 1 + Digits(n \div 10)

Dec(n) == [c |-> n, e |-> 0]

\* The same number without trailing zeros in its coefficient.
RECURSIVE Normal(_)
Normal(x) ==
    IF x.c = 0 THEN Dec(0)
    ELSE IF x.c % 10 = 0 THEN Normal([c |-> x.c \div 10, e |-> x.e + 1])
    ELSE x

\* Decimal.__eq__ compares the numbers, not their representations.
DecEq(x, y) == Normal(x) = Normal(y)

\* n / d rounded half-even to an integer.
RoundQuot(n, d) ==
    LET q == n \div d
        r == n % d
    IN  IF 2 * r > d \/ (2 * r = d /\ q % 2 = 1) THEN q + 1 ELSE q

DecRound(c, e) ==
    LET drop == Digits(c) - Prec
    IN  IF drop <= 0 THEN [c |-> c, e |-> e]
        ELSE [c |-> RoundQuot(c, Pow10(drop)), e |-> e + drop]

DecMul(x, y) == DecRound(x.c * y.c, x.e + y.e)

\* The least shift that gives the quotient n * 10^k / d its Prec digits.
RECURSIVE Shift(_, _, _)
Shift(n, d, k) == IF n >= d * Pow10(Prec - 1) THEN k ELSE Shift(n * 10, d, k + 1)

DecDiv(x, y) ==
    IF x.c = 0 THEN Dec(0)
    ELSE LET k == Shift(x.c, y.c, 0)
         IN  [c |-> RoundQuot(x.c * Pow10(k), y.c), e |-> x.e - y.e - k]

\* The rates the migration seeds the currencies with: 1.0, 0.85, 75.0.
initial_rate(code) ==
    CASE code = "USD" -> [c |-> 1, e |-> 0]
      [] code = "EUR" -> [c |-> 85, e |-> -2]
      [] code = "RUB" -> [c |-> 75, e |-> 0]

\* Currency.exchange_rate, as the Currency row holds it.
exchange_rate(code) == rates[code]

\* A conversion that goes through the reference currency even when the two
\* currencies are the same.
convert_to_unconditional(from, amount, target_currency) ==
    DecMul(DecDiv(amount, exchange_rate(from)), exchange_rate(target_currency))

\* A conversion that leaves out the division by the source's rate.
convert_to_undivided(from, amount, target_currency) ==
    IF from = target_currency THEN amount
    ELSE DecMul(amount, exchange_rate(target_currency))

\* Currency.convert_to: self is the currency `from`.
convert_to(from, amount, target_currency) ==
    IF from = target_currency THEN amount
    ELSE LET amount_in_usd == DecDiv(amount, exchange_rate(from))
         IN  DecMul(amount_in_usd, exchange_rate(target_currency))

----------------------------------------------------------------------------
(* UserAccount *)

\* A sufficiency check that lets every amount through.
has_sufficient_balance_unchecked(balance, amount) == TRUE

has_sufficient_balance(balance, amount) == balance >= amount

\* DecimalField(max_digits=12, decimal_places=2): a value with more digits
\* cannot be written and save() raises.
Persistable(balance) == balance <= MaxBalance

\* UserAccount.withdraw on an instance whose balance field is `balance`:
\* the outcome and the balance it saves.
withdraw(balance, amount) ==
    IF amount <= 0
    THEN [ok |-> FALSE, err |-> "InvalidAmount", balance |-> balance]
    ELSE IF ~has_sufficient_balance(balance, amount)
    THEN [ok |-> FALSE, err |-> "InsufficientFunds", balance |-> balance]
    ELSE [ok |-> TRUE, err |-> "", balance |-> balance - amount]

\* UserAccount.deposit on an instance whose balance field is `balance`.
deposit(balance, amount) ==
    IF amount <= 0
    THEN [ok |-> FALSE, err |-> "InvalidAmount", balance |-> balance]
    ELSE IF ~Persistable(balance + amount)
    THEN [ok |-> FALSE, err |-> "Overflow", balance |-> balance]
    ELSE [ok |-> TRUE, err |-> "", balance |-> balance + amount]

----------------------------------------------------------------------------
(* Transaction.transfer *)

\* The rejections with the balance check left to withdraw.
transfer_precheck_late(sender, recipient, sbal, amount) ==
    IF sender = recipient THEN "SelfTransfer" ELSE ""

\* The two rejections that precede the creation of the entry.
transfer_precheck(sender, recipient, sbal, amount) ==
    IF sender = recipient THEN "SelfTransfer"
    ELSE IF ~has_sufficient_balance(sbal, amount) THEN "InsufficientFunds"
    ELSE ""

\* An entry that is written settled whatever the caller asks.
NewEntry_settled(sender, recipient, amount, currency, type, success) ==
    [sender |-> sender, recipient |-> recipient, amount |-> amount,
     currency |-> currency, type |-> type, success |-> TRUE]

NewEntry(sender, recipient, amount, currency, type, success) ==
    [sender |-> sender, recipient |-> recipient, amount |-> amount,
     currency |-> currency, type |-> type, success |-> success]

Insert(row) == [i \in DOMAIN entries \cup {nextId} |->
                  IF i = nextId THEN row ELSE entries[i]]

\* Worker p can take request number started + 1 of at most n.  The workers are
\* interchangeable, so a request goes to the lowest free one.
Free(p, n) ==
    /\ req[p] = Idle
    /\ \A q \in Procs : q < p => req[q] # Idle
    /\ started < n

Finished(p, result) == req' = [req EXCEPT ![p].pc = "done", ![p].result = result]

----------------------------------------------------------------------------
Init ==
    /\ accounts = [a \in Accounts |-> [balance |-> 0, currency |-> "USD"]]
    /\ entries = <<>>
    /\ nextId = 1
    /\ req = [p \in Procs |-> Idle]
    /\ started = 0
    /\ users = [u \in UserIds |-> NoUser]
    /\ rates = [c \in Currencies |-> initial_rate(c)]

\* The local state of a request serving a transfer.
TransferReq(pc, u, r, amount, c, result) ==
    [kind |-> "transfer", pc |-> pc, user |-> u, rcpt |-> r, amount |-> amount,
     currency |-> c,
     sbal |-> IF pc = "loaded" THEN accounts[u].balance ELSE 0,
     rbal |-> IF pc = "loaded" THEN accounts[r].balance ELSE 0,
     rcur |-> IF pc = "loaded" THEN accounts[r].currency ELSE Absent,
     entry |-> NoEntry, called |-> FALSE, debited |-> FALSE, credited |-> FALSE,
     dr |-> 0, cr |-> 0, settled |-> FALSE, result |-> result]

\* A serializer whose validate does not look at the amount.
serializer_errors_any_amount(r, amount, c) ==
    IF r \notin Accounts THEN "AccountNotFound"
    ELSE IF c \notin Currencies THEN "CurrencyNotFound"
    ELSE ""

\* TransactionSerializer.validate and the lookups at the head of
\* TransactionSerializer.create: the error they answer with, "" if none.
serializer_errors(r, amount, c) ==
    IF amount <= 0 THEN "InvalidAmount"
    ELSE IF r \notin Accounts THEN "AccountNotFound"
    ELSE IF c \notin Currencies THEN "CurrencyNotFound"
    ELSE ""

\* A transfer request arrives (TransferView.post, TransactionViewSet.create):
\* the serializer validates it, then loads the sender's account, the recipient
\* and the currency.
StartTransfer(p, n) ==
    /\ Free(p, n)
    /\ \E u \in Accounts, r \in Accounts \cup {UnknownAccount},
          amount \in AmountInputs, c \in CurrencyInputs :
          LET err == serializer_errors(r, amount, c)
          IN  req' = [req EXCEPT ![p] =
                        IF err # ""
                        THEN TransferReq("done", u, NoAccount, amount, Absent, err)
                        ELSE TransferReq("loaded", u, r, amount, c, "")]
    /\ started' = started + 1
    /\ UNCHANGED <<accounts, entries, nextId, users, rates>>

\* Transaction.transfer called with instances the caller loaded, without the
\* serializer in front of it.  Only the calls the serializer would have
\* refused are drawn here: the others run exactly as StartTransfer's do.
CallTransfer(p, n) ==
    /\ Free(p, n)
    /\ \E u \in Accounts, r \in Accounts, amount \in AmountInputs,
          c \in CurrencyInputs \cap Currencies :
          /\ serializer_errors(r, amount, c) # ""
          /\ req' = [req EXCEPT ![p] = TransferReq("loaded", u, r, amount, c, "")]
    /\ started' = started + 1
    /\ UNCHANGED <<accounts, entries, nextId, users, rates>>

\* Transaction.transfer up to and including objects.create(...).
TransferCreate(p) ==
    /\ req[p].kind = "transfer" /\ req[p].pc = "loaded"
    /\ LET q == req[p]
           err == transfer_precheck(q.user, q.rcpt, q.sbal, q.amount)
       IN  IF err # ""
           THEN /\ req' = [req EXCEPT ![p].pc = "done", ![p].result = err,
                                      ![p].called = TRUE]
                /\ UNCHANGED <<entries, nextId>>
           ELSE /\ entries' = Insert(NewEntry(q.user, q.rcpt, q.amount, q.currency,
                                              "TRANSFER", FALSE))
                /\ nextId' = nextId + 1
                /\ req' = [req EXCEPT ![p].pc = "created", ![p].entry = nextId,
                                      ![p].called = TRUE]
    /\ UNCHANGED <<accounts, started, users, rates>>

\* sender.withdraw(amount)
TransferWithdraw(p) ==
    /\ req[p].kind = "transfer" /\ req[p].pc = "created"
    /\ LET q == req[p]
           w == withdraw(q.sbal, q.amount)
       IN  IF w.ok
           THEN /\ accounts' = [accounts EXCEPT ![q.user].balance = w.balance]
                /\ req' = [req EXCEPT ![p].pc = "debited", ![p].debited = TRUE,
                                      ![p].dr = q.sbal - w.balance]
           ELSE /\ Finished(p, w.err)
                /\ UNCHANGED accounts
    /\ UNCHANGED <<entries, nextId, started, users, rates>>

\* recipient.deposit(amount)
TransferDeposit(p) ==
    /\ req[p].kind = "transfer" /\ req[p].pc = "debited"
    /\ LET q == req[p]
           d == deposit(q.rbal, q.amount)
       IN  IF d.ok
           THEN /\ accounts' = [accounts EXCEPT ![q.rcpt].balance = d.balance]
                /\ req' = [req EXCEPT ![p].pc = "credited", ![p].credited = TRUE,
                                      ![p].cr = d.balance - q.rbal]
           ELSE /\ Finished(p, d.err)
                /\ UNCHANGED accounts
    /\ UNCHANGED <<entries, nextId, started, users, rates>>

\* transaction.is_successful = True; transaction.save(update_fields=[...])
TransferSettle(p) ==
    /\ req[p].kind = "transfer" /\ req[p].pc = "credited"
    /\ LET q == req[p]
       IN  IF q.entry \in DOMAIN entries
           THEN /\ entries' = [entries EXCEPT ![q.entry].success = TRUE]
                /\ req' = [req EXCEPT ![p].pc = "done", ![p].settled = TRUE,
                                      ![p].result = "ok"]
           ELSE /\ Finished(p, "DatabaseError")
                /\ UNCHANGED entries
    /\ UNCHANGED <<accounts, nextId, started, users, rates>>

----------------------------------------------------------------------------
(* UserAccountViewSet.deposit *)

DepositReq(pc, u, amount, c, result) ==
    [kind |-> "deposit", pc |-> pc, user |-> u, amount |-> amount, currency |-> c,
     bal |-> IF pc = "created" THEN accounts[u].balance ELSE 0,
     entry |-> IF pc = "created" THEN nextId ELSE NoEntry,
     credited |-> FALSE, result |-> result]

\* The deposit view up to and including Transaction.objects.create(...):
\* the entry is written with is_successful=True before the balance is touched.
StartDeposit(p, n) ==
    /\ Free(p, n)
    /\ \E u \in Accounts, amount \in AmountInputs, c \in CurrencyInputs :
          IF amount <= 0
          THEN /\ req' = [req EXCEPT ![p] = DepositReq("done", u, amount, Absent, "InvalidAmount")]
               /\ UNCHANGED <<entries, nextId>>
          ELSE IF c \notin Currencies
          THEN /\ req' = [req EXCEPT ![p] = DepositReq("done", u, amount, Absent, "CurrencyNotFound")]
               /\ UNCHANGED <<entries, nextId>>
          ELSE /\ entries' = Insert(NewEntry(NoAccount, u, amount, c, "DEPOSIT", TRUE))
               /\ nextId' = nextId + 1
               /\ req' = [req EXCEPT ![p] = DepositReq("created", u, amount, c, "")]
    /\ started' = started + 1
    /\ UNCHANGED <<accounts, users, rates>>

\* user_account.deposit(amount)
DepositCredit(p) ==
    /\ req[p].kind = "deposit" /\ req[p].pc = "created"
    /\ LET q == req[p]
           d == deposit(q.bal, q.amount)
       IN  IF d.ok
           THEN /\ accounts' = [accounts EXCEPT ![q.user].balance = d.balance]
                /\ req' = [req EXCEPT ![p].pc = "done", ![p].credited = TRUE,
                                      ![p].result = "ok"]
           ELSE /\ Finished(p, d.err)
                /\ UNCHANGED accounts
    /\ UNCHANGED <<entries, nextId, started, users, rates>>

----------------------------------------------------------------------------
(* UserAccountViewSet.change_currency, UserProfileView.put / patch *)

\* The request loads the user's account row; an unknown currency code is
\* refused by UserAccountSerializer.update before anything is saved.
StartAccountUpdate(p, n) ==
    /\ Free(p, n)
    /\ \E u \in Accounts, code \in CurrencyInputs \cup {Absent} :
          req' = [req EXCEPT ![p] =
                    IF code = Absent \/ code \in Currencies
                    THEN [kind |-> "account_update", pc |-> "loaded", user |-> u,
                          code |-> code, row |-> accounts[u], result |-> ""]
                    ELSE [kind |-> "account_update", pc |-> "done", user |-> u,
                          code |-> code, row |-> accounts[u],
                          result |-> "CurrencyNotFound"]]
    /\ started' = started + 1
    /\ UNCHANGED <<accounts, entries, nextId, users, rates>>

\* ModelSerializer.update: instance.save() writes every column of the row
\* from the instance the request loaded.
AccountUpdateSave(p) ==
    /\ req[p].kind = "account_update" /\ req[p].pc = "loaded"
    /\ LET q == req[p]
       IN  accounts' = [accounts EXCEPT ![q.user] =
                          [balance |-> q.row.balance,
                           currency |-> IF q.code = Absent THEN q.row.currency ELSE q.code]]
    /\ Finished(p, "ok")
    /\ UNCHANGED <<entries, nextId, started, users, rates>>

----------------------------------------------------------------------------
(* TransactionViewSet: update, partial_update, destroy *)

\* get_queryset: the entries the user's account sends or receives.
get_queryset(u) ==
    {i \in DOMAIN entries : entries[i].sender = u \/ entries[i].recipient = u}

\* PUT / PATCH on an entry: get_object loads the row, TransactionSerializer
\* validates the body.  recipient_id, currency_id and amount are writable
\* serializer fields; rid = Absent is a body naming recipient_phone instead.
StartTxUpdate(p, n) ==
    /\ Free(p, n)
    /\ \E u \in Accounts, rid \in Accounts \cup {Absent}, amount \in AmountInputs,
          c \in (CurrencyInputs \cap Currencies) \cup {Absent} :
          \E i \in get_queryset(u) :
             req' = [req EXCEPT ![p] =
                       [kind |-> "tx_update", pc |-> IF amount <= 0 THEN "done" ELSE "loaded",
                        user |-> u, entry |-> i, row |-> entries[i],
                        rid |-> rid, amount |-> amount, currency |-> c,
                        result |-> IF amount <= 0 THEN "InvalidAmount" ELSE ""]]
    /\ started' = started + 1
    /\ UNCHANGED <<accounts, entries, nextId, users, rates>>

\* ModelSerializer.update: setattr(instance, attr, value) for every validated
\* field, then instance.save(), which writes every column of the loaded row
\* (and inserts the row again if it has been deleted meanwhile).
TxUpdateSave(p) ==
    /\ req[p].kind = "tx_update" /\ req[p].pc = "loaded"
    /\ LET q == req[p]
           row == [q.row EXCEPT
                     !.amount = q.amount,
                     !.recipient = IF q.rid = Absent THEN @ ELSE q.rid,
                     !.currency = IF q.currency = Absent THEN @ ELSE q.currency]
       IN  entries' = [i \in DOMAIN entries \cup {q.entry} |->
                         IF i = q.entry THEN row ELSE entries[i]]
    /\ Finished(p, "ok")
    /\ UNCHANGED <<accounts, nextId, started, users, rates>>

\* DELETE on an entry: get_object, then instance.delete().
TxDestroy(p, n) ==
    /\ Free(p, n)
    /\ \E u \in Accounts : \E i \in get_queryset(u) :
          /\ entries' = [j \in DOMAIN entries \ {i} |-> entries[j]]
          /\ req' = [req EXCEPT ![p] = [kind |-> "tx_destroy", pc |-> "done",
                                        user |-> u, entry |-> i, result |-> "ok"]]
    /\ started' = started + 1
    /\ UNCHANGED <<accounts, nextId, users, rates>>

----------------------------------------------------------------------------
\* The response is sent and the worker is free again.
Respond(p) ==
    /\ req[p].kind # "idle" /\ req[p].pc = "done"
    /\ req' = [req EXCEPT ![p] = Idle]
    /\ UNCHANGED <<accounts, entries, nextId, started, users, rates>>

\* The requests the API serves, at most n of them.
Api(n) ==
    \E p \in Procs :
        \/ StartTransfer(p, n)
        \/ TransferCreate(p)
        \/ TransferWithdraw(p)
        \/ TransferDeposit(p)
        \/ TransferSettle(p)
        \/ StartDeposit(p, n)
        \/ DepositCredit(p)
        \/ StartAccountUpdate(p, n)
        \/ AccountUpdateSave(p)
        \/ StartTxUpdate(p, n)
        \/ TxUpdateSave(p)
        \/ TxDestroy(p, n)
        \/ Respond(p)

\* The steps of worker p on transfers and deposits, at most n of them.
Ledger_step(p, n) ==
    \/ StartTransfer(p, n)
    \/ TransferCreate(p)
    \/ TransferWithdraw(p)
    \/ TransferDeposit(p)
    \/ TransferSettle(p)
    \/ StartDeposit(p, n)
    \/ DepositCredit(p)
    \/ Respond(p)

\* Transfers and deposits alone, at most n of them.
Ledger_ops(n) == \E p \in Procs : Ledger_step(p, n)

Next == Api(MaxRequests)
NextLong == Api(MaxRequests + 1)
NextLedger == Ledger_ops(MaxRequests + 1)
NextCall == Api(MaxRequests) \/ \E p \in Procs : CallTransfer(p, MaxRequests)

\* The application behind its API.
Spec == Init /\ [][Next]_vars
\* The same, serving one request more.
SpecLong == Init /\ [][NextLong]_vars
\* Transfer and deposit requests only.
SpecLedger == Init /\ [][NextLedger]_vars
\* The application together with callers of Transaction.transfer itself.
SpecCall == Init /\ [][NextCall]_vars

----------------------------------------------------------------------------
(* CurrencyViewSet.convert *)

\* The amounts a caller can ask to convert: Decimals with two places.
ConvertInputs == {[c |-> n, e |-> -2] : n \in AmountInputs}

\* The amounts earlier conversions returned and a caller may pass on.
Converted ==
    {req[q].converted : q \in {r \in Procs : req[r].kind = "convert" /\ req[r].result = "ok"}}

\* POST currencies/<source>/convert/: the amount is checked, the source is
\* looked up among the currencies (get_object), then the target, and
\* source_currency.convert_to(amount, target_currency) is computed.
StartConvert(p, n) ==
    /\ Free(p, n)
    /\ \E source \in Currencies \cup {UnknownCurrency},
          target \in Currencies \cup {UnknownCurrency},
          amount \in ConvertInputs \cup Converted :
          LET err == IF amount.c <= 0 THEN "InvalidAmount"
                     ELSE IF source \notin Currencies THEN "NotFound"
                     ELSE IF target \notin Currencies THEN "CurrencyNotFound"
                     ELSE ""
          IN  req' = [req EXCEPT ![p] =
                        [kind |-> "convert", pc |-> "done", source |-> source,
                         target |-> target, amount |-> amount,
                         converted |-> IF err = "" THEN convert_to(source, amount, target)
                                       ELSE Dec(0),
                         result |-> IF err = "" THEN "ok" ELSE err]]
    /\ started' = started + 1
    /\ UNCHANGED <<accounts, entries, nextId, users, rates>>

\* Conversion requests alone, at most n of them.
Convert_ops(n) == \E p \in Procs : StartConvert(p, n) \/ Respond(p)

NextConvert == Convert_ops(MaxRequests)

\* The callers of Currency.convert_to.
SpecConvert == Init /\ [][NextConvert]_vars

----------------------------------------------------------------------------
(* RegisterView, create_user_account and the admin site: users and accounts *)

\* The phone numbers the UserAccount rows hold (phone_number is unique).
PhonesTaken ==
    {users[v].phone : v \in {w \in UserIds : users[w].accounts > 0}} \ {Placeholder}

\* UserSerializer.create up to create_user's user.save(): the CustomUser row
\* is inserted (the username is unique).
RegisterSave(u) ==
    /\ ~users[u].user /\ users[u].pc = "none"
    /\ \E ph \in Phones :
          users' = [users EXCEPT ![u] = [user |-> TRUE, accounts |-> 0, phone |-> Absent,
                                         pc |-> "saved", wanted |-> ph]]
    /\ UNCHANGED <<accounts, entries, nextId, req, started, rates>>

\* create_user_account, the post_save handler:
\* UserAccount.objects.create(user=instance, phone_number=<placeholder>).
\* The insert raises if the user row is gone or the user has an account.
RegisterSignal(u) ==
    /\ users[u].pc = "saved"
    /\ users' = [users EXCEPT ![u] =
                    IF ~@.user \/ @.accounts > 0
                    THEN [@ EXCEPT !.pc = "none", !.wanted = Absent]
                    ELSE [@ EXCEPT !.accounts = 1, !.phone = Placeholder,
                                   !.pc = "signalled"]]
    /\ UNCHANGED <<accounts, entries, nextId, req, started, rates>>

\* user.account.phone_number = phone_number; user.account.save(): the save
\* writes the row of the instance the handler created (inserting it again if
\* it was deleted) and raises if the user row is gone or the number is taken.
RegisterPhone(u) ==
    /\ users[u].pc = "signalled"
    /\ users' = [users EXCEPT ![u] =
                    IF ~@.user \/ @.wanted \in PhonesTaken
                    THEN [@ EXCEPT !.pc = "none", !.wanted = Absent]
                    ELSE [@ EXCEPT !.accounts = 1, !.phone = users[u].wanted,
                                   !.pc = "none", !.wanted = Absent]]
    /\ UNCHANGED <<accounts, entries, nextId, req, started, rates>>

\* UserAccountAdmin, delete: no entry refers to the account of a user that
\* has just registered, so on_delete=PROTECT refuses nothing.
AdminDeleteAccount(u) ==
    /\ users[u].accounts > 0
    /\ users' = [users EXCEPT ![u].accounts = 0, ![u].phone = Absent]
    /\ UNCHANGED <<accounts, entries, nextId, req, started, rates>>

\* UserAccountAdmin, add: the form refuses a user that has an account (the
\* OneToOneField is unique) and a phone number that is taken.
AdminAddAccount(u) ==
    /\ users[u].user /\ users[u].accounts = 0
    /\ \E ph \in Phones \ PhonesTaken :
          users' = [users EXCEPT ![u].accounts = 1, ![u].phone = ph]
    /\ UNCHANGED <<accounts, entries, nextId, req, started, rates>>

\* CustomUserAdmin, delete: on_delete=CASCADE deletes the user's account.
AdminDeleteUser(u) ==
    /\ users[u].user
    /\ users' = [users EXCEPT ![u].user = FALSE, ![u].accounts = 0, ![u].phone = Absent]
    /\ UNCHANGED <<accounts, entries, nextId, req, started, rates>>

\* Registrations and the admin's work on users and accounts.
User_ops ==
    \E u \in UserIds :
        \/ RegisterSave(u)
        \/ RegisterSignal(u)
        \/ RegisterPhone(u)
        \/ AdminDeleteAccount(u)
        \/ AdminAddAccount(u)
        \/ AdminDeleteUser(u)

NextUsers == User_ops

\* The users and their accounts.
SpecUsers == Init /\ [][NextUsers]_vars

----------------------------------------------------------------------------
(* CurrencyAdmin: the exchange rates *)

\* The rates a staff user can enter: exchange_rate is a DecimalField with
\* four places and no validator, so zero and negative values are accepted.
RateInputs ==
    {[c |-> -1, e |-> 0], [c |-> 0, e |-> 0], [c |-> 1, e |-> -4],
     [c |-> 85, e |-> -2], [c |-> 1, e |-> 0], [c |-> 75, e |-> 0]}

\* CurrencyAdmin, add or change: the form's exchange_rate is saved as entered.
AdminSetRate(code, rate) ==
    /\ rates' = [rates EXCEPT ![code] = rate]
    /\ UNCHANGED <<accounts, entries, nextId, req, started, users>>

NextRates == \E code \in Currencies, rate \in RateInputs : AdminSetRate(code, rate)

\* The currencies and their rates.
SpecRates == Init /\ [][NextRates]_vars

----------------------------------------------------------------------------
(* TransactionViewSet.list *)

\* Entry i is created at time i (auto_now_add); a day lasts DayLength units.
timestamp(i) == i
DayLength == 2

\* A date parameter left out, and one that is not of the form YYYY-MM-DD.
NoDate == -1
BadDate == -2
DateInputs == {NoDate, BadDate} \cup (0 .. ((MaxRequests + 1) \div DayLength))
TypeInputs == {Absent, "TRANSFER", "DEPOSIT"}

\* get_queryset, the `type` parameter.
filter_type(S, type) ==
    IF type = Absent THEN S ELSE {i \in S : entries[i].type = type}

\* get_queryset, start_date: timestamp__gte the first instant of the day; a
\* date that does not parse is passed over.
filter_start(S, start_date) ==
    IF start_date \in {NoDate, BadDate} THEN S
    ELSE {i \in S : timestamp(i) >= start_date * DayLength}

\* A filter that stops at the first instant of the end date.
filter_end_exclusive(S, end_date) ==
    IF end_date \in {NoDate, BadDate} THEN S
    ELSE {i \in S : timestamp(i) < end_date * DayLength}

\* get_queryset, end_date: timestamp__lt the first instant of the day after.
filter_end(S, end_date) ==
    IF end_date \in {NoDate, BadDate} THEN S
    ELSE {i \in S : timestamp(i) < (end_date + 1) * DayLength}

\* ordering = ['-timestamp']: the entries of S, newest first.
RECURSIVE newest_first(_)
newest_first(S) ==
    IF S = {} THEN <<>>
    ELSE LET m == CHOOSE i \in S : \A j \in S : timestamp(j) <= timestamp(i)
         IN  <<m>> \o newest_first(S \ {m})

\* GET transactions/?type=&start_date=&end_date= : what the list holds.
list(u, type, start_date, end_date) ==
    newest_first(filter_end(filter_start(filter_type(get_queryset(u), type),
                                         start_date), end_date))

\* A list request: one read of the table.
StartList(p, n) ==
    /\ Free(p, n)
    /\ \E u \in Accounts, type \in TypeInputs, start_date \in DateInputs,
          end_date \in DateInputs :
          req' = [req EXCEPT ![p] =
                    [kind |-> "list", pc |-> "done", user |-> u, type |-> type,
                     start_date |-> start_date, end_date |-> end_date,
                     result |-> list(u, type, start_date, end_date)]]
    /\ started' = started + 1
    /\ UNCHANGED <<accounts, entries, nextId, users, rates>>

\* Transfers and deposits, and list requests among and after them.  A list
\* reads the table in one step and what it reads does not depend on the
\* requests in flight, so the requests are served one at a time here.
NextList ==
    \E p \in {1} :
        \/ Ledger_step(p, MaxRequests)
        \/ StartList(p, MaxRequests + 1)

\* The ledger and its readers.
SpecList == Init /\ [][NextList]_vars

\* The steps by which worker p carries on with the transfer or deposit it is
\* serving: a handler that has started runs until it returns or raises.
Serve(p) ==
    \/ TransferCreate(p)
    \/ TransferWithdraw(p)
    \/ TransferDeposit(p)
    \/ TransferSettle(p)
    \/ DepositCredit(p)
    \/ Respond(p)

\* Transfer and deposit requests, every one of them served to its end.
\* Nothing obliges a new request to arrive.
SpecLedgerFair == SpecLedger /\ \A p \in Procs : WF_vars(Serve(p))
----------------------------------------------------------------------------
(* The properties *)

Transfers == {p \in Procs : req[p].kind = "transfer"}
\* The transfers in which Transaction.transfer has returned or raised.
Returned == {p \in Transfers : req[p].pc = "done" /\ req[p].called}

RECURSIVE Sum(_, _)
Sum(f, S) == IF S = {} THEN 0
             ELSE LET i == CHOOSE j \in S : TRUE IN f[i] + Sum(f, S \ {i})

\* What the settled entries say account a holds: received minus sent.
Ledger(a) ==
    Sum([i \in DOMAIN entries |->
           IF ~entries[i].success THEN 0
           ELSE (IF entries[i].recipient = a THEN entries[i].amount ELSE 0)
                - (IF entries[i].sender = a THEN entries[i].amount ELSE 0)],
        DOMAIN entries)

\* C1: in every reachable state the persisted balance of every account is
\* at least 0, whatever transfers, deposits and updates ran or are running.
C1_BalanceNonNegative == \A a \in Accounts : accounts[a].balance >= 0

\* A debit has been persisted (and a deposit before it).
C1_Witness ==
    \E p \in Transfers :
        /\ req[p].debited
        /\ accounts[req[p].user].balance = req[p].sbal - req[p].amount

\* C2: of two transfers from one sender that both read the same balance,
\* each affordable alone but not both together, exactly one succeeds and the
\* other fails with insufficient funds; never do both settle.
C2_OneOfTwoConcurrentTransfers ==
    \A p, q \in Transfers :
        ( /\ p # q
          /\ req[p].called /\ req[q].called
          /\ req[p].user = req[q].user
          /\ req[p].user # req[p].rcpt /\ req[q].user # req[q].rcpt
          /\ req[p].sbal = req[q].sbal
          /\ req[p].amount <= req[p].sbal /\ req[q].amount <= req[q].sbal
          /\ req[p].amount + req[q].amount > req[p].sbal )
        => /\ ~(req[p].settled /\ req[q].settled)
           /\ (req[p].pc = "done" /\ req[q].pc = "done")
                => {req[p].result, req[q].result} = {"ok", "InsufficientFunds"}

\* C3: a transfer that has returned or raised has either persisted the debit
\* and the credit and settled its entry, or changed neither balance and left
\* its entry, if any, unsettled.
C3_TransferAllOrNothing ==
    \A p \in Returned :
        \/ /\ req[p].debited /\ req[p].credited /\ req[p].settled
        \/ /\ ~req[p].debited /\ ~req[p].credited /\ ~req[p].settled
           /\ req[p].entry \in DOMAIN entries => ~entries[req[p].entry].success

\* C4: a successful transfer of m in currency C takes exactly m from the
\* sender and adds to the recipient m converted from C into the recipient's
\* home currency.
C4_CreditIsConverted ==
    \A p \in Transfers :
        req[p].settled =>
            /\ req[p].dr = req[p].amount
            /\ DecEq(Dec(req[p].cr),
                     convert_to(req[p].currency, Dec(req[p].amount), req[p].rcur))

\* C5: in every reachable state each account's balance is the sum of the
\* settled entries it received minus the sum of the settled entries it sent.
C5_BalanceIsLedgerSum == \A a \in Accounts : accounts[a].balance = Ledger(a)

\* C6: a transfer to the sender's own account is rejected with no entry
\* created and no balance written, and no entry ever has its sender as its
\* recipient.
C6_NoSelfTransferEntry ==
    /\ \A p \in Returned :
          req[p].user = req[p].rcpt =>
              /\ req[p].result = "SelfTransfer"
              /\ req[p].entry = NoEntry
              /\ ~req[p].debited /\ ~req[p].credited
    /\ \A i \in DOMAIN entries : entries[i].sender # entries[i].recipient

\* C7: a transfer of a non-positive amount is rejected as an invalid amount
\* with no entry created and no balance written, through the serializer and
\* through Transaction.transfer alike.
C7_NonPositiveAmountRejected ==
    \A p \in Transfers :
        (req[p].pc = "done" /\ req[p].amount <= 0) =>
            /\ req[p].result = "InvalidAmount"
            /\ req[p].entry = NoEntry
            /\ ~req[p].debited /\ ~req[p].credited

\* The case of C8: Transaction.transfer has run for a transfer to another
\* account of more than the sender's balance as the request read it.
Overdrawn(p) ==
    /\ req[p].kind = "transfer" /\ req[p].called
    /\ req[p].user # req[p].rcpt
    /\ req[p].amount > req[p].sbal

\* C8 as stated: such a transfer fails with insufficient funds, writes no
\* balance, and leaves an entry for the attempt with success = false.
C8_FailedTransferLeavesEntry ==
    \A p \in Procs :
        (Overdrawn(p) /\ req[p].pc = "done") =>
            /\ req[p].result = "InsufficientFunds"
            /\ ~req[p].debited /\ ~req[p].credited
            /\ req[p].entry \in DOMAIN entries
            /\ ~entries[req[p].entry].success

\* C8, amended: the step of Transaction.transfer that finds the amount above
\* the sender's balance (as the request read it) ends the transfer with
\* insufficient funds and changes neither a balance nor the entries: no
\* entry is created for the attempt.
C8_OverdrawnRejectedWithoutEntry ==
    [][\A p \in Procs :
          ( /\ req[p].kind = "transfer" /\ req[p].pc = "loaded"
            /\ req'[p] # req[p]
            /\ req[p].user # req[p].rcpt
            /\ req[p].amount > req[p].sbal )
          => /\ req'[p].pc = "done"
             /\ req'[p].result = "InsufficientFunds"
             /\ req'[p].entry = NoEntry
             /\ accounts' = accounts
             /\ entries' = entries
             /\ nextId' = nextId]_vars

C8_Witness ==
    \E p \in Procs :
        /\ Overdrawn(p) /\ req[p].pc = "done"
        /\ req[p].result = "InsufficientFunds"
        /\ req[p].entry = NoEntry

\* C9: an entry starts with success = false, success never goes from true
\* back to false, and the entry of a transfer that failed stays unsettled.
C9_SuccessMonotone ==
    [][/\ \A i \in DOMAIN entries' \ DOMAIN entries : ~entries'[i].success
       /\ \A i \in DOMAIN entries \cap DOMAIN entries' :
             entries[i].success => entries'[i].success
       /\ \A p \in Returned :
             (~req[p].settled /\ req[p].entry \in DOMAIN entries')
                => ~entries'[req[p].entry].success]_vars

\* C10: no step changes the amount, sender, recipient, currency or success
\* flag of a settled entry.
C10_SettledEntryImmutable ==
    [][\A i \in DOMAIN entries \cap DOMAIN entries' :
          entries[i].success =>
              /\ entries'[i].amount = entries[i].amount
              /\ entries'[i].sender = entries[i].sender
              /\ entries'[i].recipient = entries[i].recipient
              /\ entries'[i].currency = entries[i].currency
              /\ entries'[i].success = entries[i].success]_vars

\* C11: an entry, once created, is never deleted: no step, a DELETE on the
\* transactions endpoint included, takes an entry out of the ledger.
C11_EntriesOnlyGrow == [][DOMAIN entries \subseteq DOMAIN entries']_vars

\* Entry i is unsettled, its transfer raised after it had saved the debit and
\* before it saved the credit, and the sender's balance is b.
Stranded(i, b) ==
    /\ i \in DOMAIN entries
    /\ ~entries[i].success
    /\ \E p \in Returned :
          req[p].entry = i /\ req[p].debited /\ ~req[p].credited
    /\ accounts[entries[i].sender].balance = b

\* C12: an unsettled entry whose sender was debited and whose recipient was
\* not credited is eventually resolved: the entry is settled (the credit was
\* completed) or the debit is reversed, which changes the sender's balance.
C12_StrandedDebitResolved ==
    \A i \in 1..(MaxRequests + 1), b \in 0..MaxBalance :
        Stranded(i, b) ~>
            /\ i \in DOMAIN entries
            /\ \/ entries[i].success
               \/ accounts[entries[i].sender].balance # b

\* The conversions that have been computed.
Conversions == {p \in Procs : req[p].kind = "convert" /\ req[p].result = "ok"}

\* C13: converting an amount from a currency to the same currency returns
\* the amount unchanged.
C13_SameCurrencyIdentity ==
    \A p \in Conversions :
        req[p].source = req[p].target => DecEq(req[p].converted, req[p].amount)

\* An amount has been converted from a currency whose rate is not 1 to itself.
C13_Witness ==
    \E p \in Conversions :
        /\ req[p].source = req[p].target
        /\ req[p].source = "RUB"
        /\ req[p].converted = req[p].amount

\* One minor unit.
MinorUnit == [c |-> 1, e |-> -2]

Min(a, b) == IF a <= b THEN a ELSE b

\* |x - y| <= tol, for Decimals x, y and tol.
DecWithin(x, y, tol) ==
    LET e0 == Min(x.e, Min(y.e, tol.e))
        X == x.c * Pow10(x.e - e0)
        Y == y.c * Pow10(y.e - e0)
        T == tol.c * Pow10(tol.e - e0)
    IN  X - Y <= T /\ Y - X <= T

\* Conversion q converts back what conversion p returned.
RoundTrip(p, q) ==
    /\ p # q
    /\ req[p].amount \in ConvertInputs
    /\ req[q].amount = req[p].converted
    /\ req[q].source = req[p].target
    /\ req[q].target = req[p].source

ValidationErrors == {"InvalidAmount", "AccountNotFound", "CurrencyNotFound", "SelfTransfer"}

\* C15: the step that ends a transfer or deposit request with a validation
\* error (non-positive amount, unknown currency, unknown recipient, transfer
\* to oneself) changes no balance and no entry, and the request has created
\* no entry and written no balance before it.
C15_ValidationFailureNoEffect ==
    [][\A p \in Procs :
          ( /\ req'[p] # req[p]
            /\ req'[p].kind \in {"transfer", "deposit"}
            /\ req'[p].pc = "done"
            /\ req'[p].result \in ValidationErrors )
          => /\ accounts' = accounts
             /\ entries' = entries
             /\ nextId' = nextId
             /\ req'[p].entry = NoEntry
             /\ ~req'[p].credited
             /\ req'[p].kind = "transfer" => ~req'[p].debited]_vars

\* A transfer to oneself has been refused by Transaction.transfer and a
\* deposit of a non-positive amount by the deposit view.
C15_Witness ==
    \E p, q \in Procs :
        /\ req[p].kind = "transfer" /\ req[p].result = "SelfTransfer" /\ req[p].called
        /\ req[q].kind = "deposit" /\ req[q].result = "InvalidAmount"

\* C16: a deposit of m > 0 in a registered currency ends with a settled
\* DEPOSIT entry that has no sender and the account as recipient, and with
\* the account's balance raised by exactly m, whatever the currency.
C16_DepositCreditsExactly ==
    [][\A p \in Procs :
          ( /\ req[p].kind = "deposit" /\ req[p].pc = "created"
            /\ req'[p] # req[p] )
          => /\ req[p].entry \in DOMAIN entries'
             /\ entries'[req[p].entry] =
                   NewEntry(NoAccount, req[p].user, req[p].amount, req[p].currency,
                            "DEPOSIT", TRUE)
             /\ accounts'[req[p].user].balance =
                   accounts[req[p].user].balance + req[p].amount]_vars

\* C17: every user owns exactly one account, no registration being under
\* way for it: neither none nor more than one.
C17_OneAccountPerUser ==
    \A u \in UserIds :
        (users[u].user /\ users[u].pc = "none") => users[u].accounts = 1

\* C18: an entry is settled only after the balance writes it stands for have
\* been persisted: the debit and the credit of a transfer, the credit of a
\* deposit.  So a request whose entry reads success = true has made them.
C18_SettledImpliesApplied ==
    \A p \in Procs :
        ( /\ req[p].kind \in {"transfer", "deposit"}
          /\ req[p].entry \in DOMAIN entries
          /\ entries[req[p].entry].success )
        => /\ req[p].credited
           /\ req[p].kind = "transfer" => req[p].debited

\* C19: when the sender's balance, as Transaction.transfer reads it, is less
\* than the amount, the call raises at its checks, before objects.create:
\* the step leaves the set of entries, every entry and every balance as
\* they were.
C19_InsufficientRejectedBeforeCreate ==
    [][\A p \in Procs :
          ( /\ req[p].kind = "transfer" /\ req[p].pc = "loaded"
            /\ req'[p] # req[p]
            /\ req[p].sbal < req[p].amount )
          => /\ req'[p].pc = "done"
             /\ req'[p].result =
                   (IF req[p].user = req[p].rcpt THEN "SelfTransfer" ELSE "InsufficientFunds")
             /\ DOMAIN entries' = DOMAIN entries
             /\ entries' = entries
             /\ accounts' = accounts]_vars

\* A sender holding less than the amount, but not nothing, has been refused
\* while the ledger held entries.
C19_Witness ==
    \E p \in Transfers :
        /\ req[p].called /\ req[p].pc = "done"
        /\ 0 < req[p].sbal /\ req[p].sbal < req[p].amount
        /\ req[p].result = "InsufficientFunds"
        /\ DOMAIN entries # {}

\* The transfer on worker p created its entry and ended without the debit:
\* sender.withdraw raised.
DebitFailed(p) ==
    /\ req[p].kind = "transfer" /\ req[p].pc = "done"
    /\ req[p].entry # NoEntry
    /\ ~req[p].debited

\* C20: when the debit fails after the entry was created, the step in which
\* it fails writes no balance and no entry, the caller gets the error, and
\* from then on the entry is unsettled and the recipient is not credited.
C20_FailedDebitLeavesPending ==
    [][\A p \in Procs :
          DebitFailed(p)' =>
              /\ req'[p].result \in {"InvalidAmount", "InsufficientFunds"}
              /\ ~req'[p].credited
              /\ req'[p].entry \in DOMAIN entries' => ~entries'[req'[p].entry].success
              /\ ~DebitFailed(p) => (accounts' = accounts /\ entries' = entries)]_vars

\* A transfer whose debit raised has left its entry unsettled.
C20_Witness ==
    \E p \in Procs :
        /\ DebitFailed(p)
        /\ req[p].result = "InvalidAmount"
        /\ req[p].entry \in DOMAIN entries
        /\ ~entries[req[p].entry].success

\* C21: credits and debits on an account take effect one after another: the
\* step that persists a debit of m lowers the persisted balance by m and the
\* step that persists a credit of m raises it by m, whatever other requests
\* wrote since the request loaded the account.  No update is lost.
C21_NoLostUpdate ==
    [][\A p \in Procs :
          /\ ( /\ req[p].kind = "transfer" /\ req[p].pc = "created"
               /\ req'[p].debited )
             => accounts'[req[p].user].balance =
                   accounts[req[p].user].balance - req[p].amount
          /\ ( /\ req[p].kind = "transfer" /\ req[p].pc = "debited"
               /\ req'[p].credited )
             => accounts'[req[p].rcpt].balance =
                   accounts[req[p].rcpt].balance + req[p].amount
          /\ ( /\ req[p].kind = "deposit" /\ req[p].pc = "created"
               /\ req'[p].credited )
             => accounts'[req[p].user].balance =
                   accounts[req[p].user].balance + req[p].amount]_vars

\* The step persists a debit or a credit of request p on account a.
MutatesBalance(p, a) ==
    \/ /\ req[p].kind = "transfer" /\ req[p].pc = "created"
       /\ req'[p].debited /\ req[p].user = a
    \/ /\ req[p].kind = "transfer" /\ req[p].pc = "debited"
       /\ req'[p].credited /\ req[p].rcpt = a
    \/ /\ req[p].kind = "deposit" /\ req[p].pc = "created"
       /\ req'[p].credited /\ req[p].user = a

\* C22: the persisted balance of an account changes only in a step that
\* persists a debit (UserAccount.withdraw) or a credit (UserAccount.deposit)
\* on it: a profile update, a change of currency or an update of an entry
\* leaves every balance as it is.
C22_BalanceChangesOnlyByCreditOrDebit ==
    [][\A a \in Accounts :
          accounts'[a].balance # accounts[a].balance
              => \E p \in Procs : MutatesBalance(p, a)]_vars

\* C23: every currency has an exchange rate above zero and the reference
\* currency USD has the rate 1, after seeding and after any update of a rate.
C23_RatesPositiveUsdOne ==
    /\ \A code \in Currencies : rates[code].c > 0
    /\ DecEq(rates["USD"], Dec(1))

\* The day on which entry i was created.
Day(i) == timestamp(i) \div DayLength

\* The entries a list for account u with these filters is to hold.
Listed(u, type, start_date, end_date) ==
    {i \in DOMAIN entries :
        /\ entries[i].sender = u \/ entries[i].recipient = u
        /\ type # Absent => entries[i].type = type
        /\ start_date # NoDate => Day(i) >= start_date
        /\ end_date # NoDate => Day(i) <= end_date}

C25_ChangeCurrencyOnlyCurrency ==
    [][\A p \in Procs :
          /\ ( /\ req[p].kind = "account_update" /\ req[p].pc = "loaded"
               /\ req[p].code \in Currencies
               /\ req'[p].pc = "done" )
             => /\ \A a \in Accounts : accounts'[a].balance = accounts[a].balance
                /\ accounts'[req[p].user].currency = req[p].code
                /\ \A a \in Accounts \ {req[p].user} : accounts'[a] = accounts[a]
                /\ entries' = entries
          /\ ( /\ req[p] = Idle /\ req'[p].kind = "account_update"
               /\ req'[p].code = UnknownCurrency )
             => /\ req'[p].pc = "done"
                /\ accounts' = accounts
                /\ entries' = entries]_vars
====
